---- MODULE Spec2Model ----
(***************************************************************************)
(* The chat page of static/chat.js as a state machine.                     *)
(*                                                                         *)
(* One action per event-loop turn: a keydown on the input, a click on the  *)
(* send button, the firing of an inactivity timer, the settling of one of  *)
(* the two promises flushPendingChunks awaits (fetch, res.json), the       *)
(* settling of the two promises loadHistory awaits, and the passage of     *)
(* time.  Texts are sequences of one-character strings, so that trim and   *)
(* join are computed and not assumed.                                      *)
(*                                                                         *)
(* Time is discrete: a step of Tick lasts TickMs, and a quiet period is    *)
(* TicksPerQuiet such steps.  A timer that is due runs before the clock    *)
(* advances and before the next user event (the event loop is idle between *)
(* the turns of this page); responses of the backend arrive at any time.   *)
(***************************************************************************)
EXTENDS Integers, Sequences, FiniteSets, TLC

\* ---------------------------------------------------------------- bounds
TicksPerQuiet == 2
MaxCommits == 2

\* ------------------------------------------------------------- constants
INACTIVITY_MS == 4000

TickMs == (INACTIVITY_MS + TicksPerQuiet - 1) \div TicksPerQuiet

Null == 0

Chars == {"a", " "}

Whitespace == {" "}

\* the texts the input field may hold: those of at most two characters
Texts ==
  {<<>>} \cup {<<c>> : c \in Chars} \cup {<<c, d>> : c \in Chars, d \in Chars}

\* e.key / e.shiftKey of the keydown events the page receives
KeyEvents ==
  {[key |-> c, shiftKey |-> FALSE] : c \in Chars}
    \cup {[key |-> "Enter", shiftKey |-> b] : b \in BOOLEAN}

\* reply texts the backend may put in data.bot.text
BotTexts == {<<>>, <<" ">>, <<"o", "k">>}

\* parsed bodies of POST /send: null, {} and {bot: {text}}
SendBodies ==
  {[kind |-> "null", text |-> <<>>], [kind |-> "nobot", text |-> <<>>]}
    \cup {[kind |-> "bot", text |-> t] : t \in BotTexts}

\* parsed bodies of GET /messages: an array of message records, or no array
HistoryBodies ==
  {[kind |-> "array", rows |-> <<>>],
   [kind |-> "array", rows |-> <<[sender |-> "bot", text |-> <<"o", "k">>]>>],
   [kind |-> "other", rows |-> <<>>]}

Min(a, b) == IF a < b THEN a ELSE b

Max(a, b) == IF a < b THEN b ELSE a

\* ----------------------------------------------------------------- state
VARIABLES
  inputValue,      \* inputEl.value
  pendingChunks,   \* pendingChunks
  pendingTimer,    \* pendingTimer: Null or a timer id
  timers,          \* the browser's scheduled timeouts: id -> ms left
  messages,        \* the bubbles of messagesEl, in order (typing row apart)
  typingBubbleEl,  \* typingBubbleEl # null
  typingShown,     \* the typing row is a child of messagesEl
  sendBtnDisabled, \* sendBtn.disabled
  requests,        \* the calls of flushPendingChunks that reached fetch
  historyPc,       \* where loadHistory() stands
  commitLog,       \* history: the non-empty commits, fragment and spacing
  idleMs,          \* history: ms since the last activity signal (capped)
  sinceCommit,     \* history: ms since the last non-empty commit (capped)
  quietSeen        \* history: a full quiet period passed since that commit

pageVars ==
  <<inputValue, pendingChunks, pendingTimer, timers, messages, typingBubbleEl,
    typingShown, sendBtnDisabled, requests, historyPc>>

histVars == <<commitLog, idleMs, sinceCommit, quietSeen>>

vars == <<pageVars, histVars>>

\* the page as one record, so that handlers compose as the code's calls do
Page ==
  [inputValue |-> inputValue, pendingChunks |-> pendingChunks,
   pendingTimer |-> pendingTimer, timers |-> timers, messages |-> messages,
   typingBubbleEl |-> typingBubbleEl, typingShown |-> typingShown,
   sendBtnDisabled |-> sendBtnDisabled, requests |-> requests,
   historyPc |-> historyPc]

Becomes(p) ==
  /\ inputValue' = p.inputValue
  /\ pendingChunks' = p.pendingChunks
  /\ pendingTimer' = p.pendingTimer
  /\ timers' = p.timers
  /\ messages' = p.messages
  /\ typingBubbleEl' = p.typingBubbleEl
  /\ typingShown' = p.typingShown
  /\ sendBtnDisabled' = p.sendBtnDisabled
  /\ requests' = p.requests
  /\ historyPc' = p.historyPc

\* ------------------------------------------------------------------ text
RECURSIVE TrimStart(_)
TrimStart(s) ==
  IF s # <<>> /\ Head(s) \in Whitespace THEN TrimStart(Tail(s)) ELSE s

RECURSIVE TrimEnd(_)
TrimEnd(s) ==
  IF s # <<>> /\ s[Len(s)] \in Whitespace
    THEN TrimEnd(SubSeq(s, 1, Len(s) - 1))
    ELSE s

\* String.prototype.trim
Trim(s) == TrimEnd(TrimStart(s))

\* mutant of Join: the chunks are concatenated with nothing between them
RECURSIVE joinNoSeparator(_, _)
joinNoSeparator(chunks, sep) ==
  IF chunks = <<>> THEN <<>>
  ELSE Head(chunks) \o joinNoSeparator(Tail(chunks), sep)

\* Array.prototype.join(sep)
RECURSIVE Join(_, _)
Join(chunks, sep) ==
  IF chunks = <<>> THEN <<>>
  ELSE IF Len(chunks) = 1 THEN chunks[1]
  ELSE chunks[1] \o sep \o Join(Tail(chunks), sep)

\* ------------------------------------------------------------- rendering
\* appendMessage: an empty or whitespace-only text renders nothing
appendMessage(msgs, msg) ==
  IF msg.text = <<>> \/ Trim(msg.text) = <<>> THEN msgs ELSE Append(msgs, msg)

RECURSIVE forEachAppendMessage(_, _)
forEachAppendMessage(msgs, rows) ==
  IF rows = <<>> THEN msgs
  ELSE forEachAppendMessage(appendMessage(msgs, Head(rows)), Tail(rows))

showTypingIndicator(p) ==
  IF p.typingBubbleEl THEN p
  ELSE [p EXCEPT !.typingBubbleEl = TRUE, !.typingShown = TRUE]

hideTypingIndicator(p) ==
  IF p.typingBubbleEl
    THEN [p EXCEPT !.typingBubbleEl = FALSE, !.typingShown = FALSE]
    ELSE p

setSending(p, isSending) == [p EXCEPT !.sendBtnDisabled = isSending]

\* ---------------------------------------------------------------- timers
\* ids are opaque handles: a new timeout takes the least id not scheduled
FreshTimer(p) ==
  CHOOSE n \in 1..(Cardinality(DOMAIN p.timers) + 1) : n \notin DOMAIN p.timers

clearTimeout(p, id) ==
  [p EXCEPT !.timers = [t \in DOMAIN p.timers \ {id} |-> p.timers[t]]]

\* mutant of armTimer: the timeout is set to twice the quiet period
armTimerLate(p) ==
  LET id == FreshTimer(p)
  IN [p EXCEPT !.timers = @ @@ (id :> 2 * INACTIVITY_MS), !.pendingTimer = id]

\* pendingTimer = setTimeout(flushPendingChunks, INACTIVITY_MS)
armTimer(p) ==
  LET id == FreshTimer(p)
  IN [p EXCEPT !.timers = @ @@ (id :> INACTIVITY_MS), !.pendingTimer = id]

\* mutant of bumpActivityTimer: the scheduled timeout is not cleared
bumpNoCancel(p) == IF Len(p.pendingChunks) = 0 THEN p ELSE armTimer(p)

\* mutant of bumpActivityTimer: the timer is armed with an empty buffer too
bumpNoGuard(p) ==
  armTimer(IF p.pendingTimer # Null THEN clearTimeout(p, p.pendingTimer) ELSE p)

\* mutant of bumpActivityTimer: a running timer is cancelled and not replaced
bumpCancelOnly(p) ==
  IF Len(p.pendingChunks) = 0 THEN p
  ELSE IF p.pendingTimer # Null THEN clearTimeout(p, p.pendingTimer)
  ELSE armTimer(p)

\* mutant of bumpActivityTimer: a running timer is left to run
bumpIfUnset(p) ==
  IF Len(p.pendingChunks) = 0 \/ p.pendingTimer # Null THEN p ELSE armTimer(p)

bumpActivityTimer(p) ==
  IF Len(p.pendingChunks) = 0 THEN p
  ELSE armTimer(IF p.pendingTimer # Null
                  THEN clearTimeout(p, p.pendingTimer)
                  ELSE p)

\* ---------------------------------------------------------------- commit
\* mutant of commitText: the text is taken as typed, untrimmed
commitTextRaw(value) == value

\* the text sendMessage buffers
commitText(value) == Trim(value)

\* mutant of sendMessage: the buffer is overwritten by the new fragment
sendMessageOverwrite(p) ==
  LET text == commitText(p.inputValue)
  IN IF text = <<>> THEN p
     ELSE bumpActivityTimer(
            [p EXCEPT !.messages =
                        appendMessage(@, [sender |-> "user", text |-> text]),
                      !.inputValue = <<>>,
                      !.pendingChunks = <<text>>])

\* mutant of sendMessage: an empty text is committed like any other
sendMessageAnyText(p) ==
  LET text == commitText(p.inputValue)
  IN bumpActivityTimer(
       [p EXCEPT !.messages =
                   appendMessage(@, [sender |-> "user", text |-> text]),
                 !.inputValue = <<>>,
                 !.pendingChunks = Append(@, text)])

sendMessage(p) ==
  LET text == commitText(p.inputValue)
  IN IF text = <<>> THEN p
     ELSE bumpActivityTimer(
            [p EXCEPT !.messages =
                        appendMessage(@, [sender |-> "user", text |-> text]),
                      !.inputValue = <<>>,
                      !.pendingChunks = Append(@, text)])

\* the keydown listener of inputEl
onKeydown(p, e) ==
  LET q == bumpActivityTimer(p)
  IN IF e.key = "Enter" /\ ~e.shiftKey THEN sendMessage(q) ELSE q

\* what the browser does with a key the listener did not prevent: a
\* character key inserts its character, Shift+Enter leaves a one-line
\* input as it is
defaultAction(p, e) ==
  IF e.key \in Chars THEN [p EXCEPT !.inputValue = Append(@, e.key)] ELSE p

\* ----------------------------------------------------------------- flush
NewRequest(payload) ==
  [payload |-> payload, pc |-> "fetch", outcome |-> "pending",
   promise |-> "pending"]

\* mutant of clearPending: the buffer is not emptied
clearTimerOnly(p) == [p EXCEPT !.pendingTimer = Null]

\* mutant of clearPending: the timer handle is not reset
clearChunksOnly(p) == [p EXCEPT !.pendingChunks = <<>>]

\* pendingChunks = []; pendingTimer = null
clearPending(p) == [p EXCEPT !.pendingChunks = <<>>, !.pendingTimer = Null]

\* mutant of flushPendingChunks: nothing is flushed while a send is under way
flushWhenIdle(p) ==
  IF Len(p.pendingChunks) = 0 \/ p.sendBtnDisabled THEN p
  ELSE LET mergedText == Trim(Join(p.pendingChunks, <<" ">>))
           q == clearPending(p)
       IN IF mergedText = <<>> THEN q
          ELSE [showTypingIndicator(setSending(q, TRUE))
                  EXCEPT !.requests = Append(@, NewRequest(mergedText))]

\* flushPendingChunks up to its first await
flushPendingChunks(p) ==
  IF Len(p.pendingChunks) = 0 THEN p
  ELSE LET mergedText == Trim(Join(p.pendingChunks, <<" ">>))
           q == clearPending(p)
       IN IF mergedText = <<>> THEN q
          ELSE [showTypingIndicator(setSending(q, TRUE))
                  EXCEPT !.requests = Append(@, NewRequest(mergedText))]

\* mutant of finish: the call returns without its finally block
finishNoFinally(p, i, outcome) ==
  [p EXCEPT !.requests[i] =
              [@ EXCEPT !.pc = "done", !.outcome = outcome,
                        !.promise = "fulfilled"]]

\* the request's call returns: finally { setSending(false) }
finish(p, i, outcome) ==
  [setSending(p, FALSE)
     EXCEPT !.requests[i] =
              [@ EXCEPT !.pc = "done", !.outcome = outcome,
                        !.promise = "fulfilled"]]

\* mutant of catchSendError: the composing indicator is left in place
catchNoHide(p, i) == finish(p, i, "failed")

\* mutant of catchSendError: the failure is shown to the user as a bot bubble
catchRendersError(p, i) ==
  finish(hideTypingIndicator(
           [p EXCEPT !.messages =
                       appendMessage(@, [sender |-> "bot",
                                         text |-> <<"o", "k">>])]),
         i, "failed")

\* catch (err) { hideTypingIndicator(); console.error(...) }
catchSendError(p, i) == finish(hideTypingIndicator(p), i, "failed")

\* mutant of afterFetch: the indicator stays until the reply has been read
afterFetchKeepsIndicator(p, i, res) ==
  IF res = "error" THEN catchSendError(p, i)
  ELSE IF res = "notok"
         THEN finish(setSending(hideTypingIndicator(p), FALSE), i, "failed")
         ELSE [p EXCEPT !.requests[i].pc = "json"]

\* the awaited fetch settles: res in {"ok", "notok"}, or it rejects ("error")
afterFetch(p, i, res) ==
  IF res = "error" THEN catchSendError(p, i)
  ELSE LET q == hideTypingIndicator(p)
       IN IF res = "notok" THEN finish(setSending(q, FALSE), i, "failed")
          ELSE [q EXCEPT !.requests[i].pc = "json"]

\* the awaited res.json() settles: with a body, or it rejects (kind "reject")
afterJson(p, i, data) ==
  IF data.kind \in {"reject", "null"} THEN catchSendError(p, i)
  ELSE IF data.kind = "bot" /\ data.text # <<>> /\ Trim(data.text) # <<>>
    THEN finish([p EXCEPT !.messages =
                            appendMessage(@, [sender |-> "bot",
                                              text |-> data.text])],
                i, "ok")
    ELSE finish(p, i, "ok")

\* --------------------------------------------------------------- history
\* messagesEl.innerHTML = ""; data.forEach(appendMessage)
renderHistory(p, data) ==
  LET q == [p EXCEPT !.messages = <<>>, !.typingShown = FALSE,
                     !.historyPc = "done"]
  IN IF data.kind = "array"
       THEN [q EXCEPT !.messages = forEachAppendMessage(@, data.rows)]
       ELSE q

\* --------------------------------------------------------------- actions
Init ==
  /\ inputValue = <<>>
  /\ pendingChunks = <<>>
  /\ pendingTimer = Null
  /\ timers = <<>>
  /\ messages = <<>>
  /\ typingBubbleEl = FALSE
  /\ typingShown = FALSE
  /\ sendBtnDisabled = FALSE
  /\ requests = <<>>
  /\ historyPc = "fetch"
  /\ commitLog = <<>>
  /\ idleMs = 0
  /\ sinceCommit = 0
  /\ quietSeen = FALSE

TimerDue == \E t \in DOMAIN timers : timers[t] = 0

\* how the commit now issued lies after the one before it
Spacing ==
  IF commitLog = <<>> THEN "first"
  ELSE IF quietSeen THEN "quiet"
  ELSE IF sinceCommit < INACTIVITY_MS THEN "tight"
  ELSE "late"

\* the fragment a commit of the input's text stands for: the text without
\* its leading and trailing whitespace
Fragment(value) ==
  LET first == {i \in 1..Len(value) : value[i] \notin Whitespace}
  IN IF first = {} THEN <<>>
     ELSE SubSeq(value, CHOOSE i \in first : \A j \in first : i <= j,
                 CHOOSE i \in first : \A j \in first : j <= i)

\* a commit gesture with a text that is non-empty after trimming is logged
Logged(commits) ==
  IF commits
    THEN /\ commitLog' =
              Append(commitLog, [text |-> Fragment(inputValue), spacing |-> Spacing])
         /\ sinceCommit' = 0
         /\ quietSeen' = FALSE
    ELSE UNCHANGED <<commitLog, sinceCommit, quietSeen>>

\* a key goes down in the input
KeyDown(e) ==
  LET commits == e.key = "Enter" /\ ~e.shiftKey /\ Fragment(inputValue) # <<>>
  IN /\ ~TimerDue
     /\ e.key \in Chars => Append(inputValue, e.key) \in Texts
     /\ commits => Len(commitLog) < MaxCommits
     /\ Becomes(defaultAction(onKeydown(Page, e), e))
     /\ idleMs' = 0
     /\ Logged(commits)

\* the send button is clicked (a disabled button dispatches no click)
Click ==
  LET commits == Fragment(inputValue) # <<>>
  IN /\ ~TimerDue
     /\ ~sendBtnDisabled
     /\ commits => Len(commitLog) < MaxCommits
     /\ Becomes(sendMessage(Page))
     /\ idleMs' = IF commits THEN 0 ELSE idleMs
     /\ Logged(commits)

\* TickMs pass with no event
Tick ==
  /\ ~TimerDue
  /\ timers' = [t \in DOMAIN timers |-> Max(0, timers[t] - TickMs)]
  /\ idleMs' = Min(INACTIVITY_MS, idleMs + TickMs)
  /\ sinceCommit' = Min(INACTIVITY_MS, sinceCommit + TickMs)
  /\ quietSeen' = (quietSeen \/ (commitLog # <<>> /\ idleMs' >= INACTIVITY_MS))
  /\ UNCHANGED <<inputValue, pendingChunks, pendingTimer, messages,
                 typingBubbleEl, typingShown, sendBtnDisabled, requests,
                 historyPc, commitLog>>

\* a due timeout runs its callback, flushPendingChunks
TimerFire(t) ==
  /\ timers[t] = 0
  /\ Becomes(flushPendingChunks(clearTimeout(Page, t)))
  /\ UNCHANGED histVars

\* the fetch of request i settles
FetchSettles(i, res) ==
  /\ requests[i].pc = "fetch"
  /\ Becomes(afterFetch(Page, i, res))
  /\ UNCHANGED histVars

\* the res.json() of request i settles
JsonSettles(i, data) ==
  /\ requests[i].pc = "json"
  /\ Becomes(afterJson(Page, i, data))
  /\ UNCHANGED histVars

\* loadHistory: fetch("/messages") settles; a rejection is caught and logged
HistoryFetchSettles(resolved) ==
  /\ historyPc = "fetch"
  /\ Becomes([Page EXCEPT !.historyPc = IF resolved THEN "json" ELSE "done"])
  /\ UNCHANGED histVars

\* loadHistory: res.json() settles; a rejection is caught and logged
HistoryJsonSettles(data) ==
  /\ historyPc = "json"
  /\ Becomes(IF data.kind = "reject"
               THEN [Page EXCEPT !.historyPc = "done"]
               ELSE renderHistory(Page, data))
  /\ UNCHANGED histVars

Rejected == [kind |-> "reject", text |-> <<>>, rows |-> <<>>]

Next ==
  \/ \E e \in KeyEvents : KeyDown(e)
  \/ Click
  \/ Tick
  \/ \E t \in DOMAIN timers : TimerFire(t)
  \/ \E i \in DOMAIN requests, res \in {"ok", "notok", "error"} :
       FetchSettles(i, res)
  \/ \E i \in DOMAIN requests, data \in SendBodies \cup {Rejected} :
       JsonSettles(i, data)
  \/ \E resolved \in BOOLEAN : HistoryFetchSettles(resolved)
  \/ \E data \in HistoryBodies \cup {Rejected} : HistoryJsonSettles(data)

Spec == Init /\ [][Next]_vars

\* Spec, with time passing and the event loop running every due timeout
TimerFairSpec ==
  /\ Spec
  /\ WF_vars(Tick)
  /\ WF_vars(\E t \in DOMAIN timers : TimerFire(t))

\* Spec, with every awaited promise of every request settling in the end
ResponseFairSpec ==
  /\ Spec
  /\ \A i \in 1..MaxCommits :
       /\ WF_vars(i \in DOMAIN requests
                    /\ \E res \in {"ok", "notok", "error"} : FetchSettles(i, res))
       /\ WF_vars(i \in DOMAIN requests
                    /\ \E data \in SendBodies \cup {Rejected} :
                         JsonSettles(i, data))

\* ------------------------------------------------- vocabulary of the claims
\* texts joined by single spaces, as the claims read "joined"
RECURSIVE SpaceJoined(_)
SpaceJoined(texts) ==
  IF texts = <<>> THEN <<>>
  ELSE IF Len(texts) = 1 THEN texts[1]
  ELSE texts[1] \o <<" ">> \o SpaceJoined(Tail(texts))

\* the payloads of the requests sent so far, in dispatch order
Payloads == [k \in DOMAIN requests |-> requests[k].payload]

\* the fragments of the non-empty commits so far, in commit order
Committed == [k \in DOMAIN commitLog |-> commitLog[k].text]

\* every commit after the first came less than a quiet period after the last
AllTight == \A k \in 2..Len(commitLog) : commitLog[k].spacing = "tight"

\* every commit after the first came after a quiet period with no activity
AllQuiet == \A k \in 2..Len(commitLog) : commitLog[k].spacing = "quiet"

\* a quiet period has passed since the last commit and its timer has run
QuietNow == commitLog # <<>> /\ quietSeen /\ ~TimerDue

\* the requests whose response is not yet resolved
Outstanding == {i \in DOMAIN requests : requests[i].pc # "done"}

\* a step in which flushPendingChunks calls fetch
Dispatches == Len(requests') > Len(requests)

\* ---------------------------------------------------------------- claims

\* C1: commits that each come less than the quiet period after the one
\* before, followed by a quiet period with no activity, give exactly one
\* request, whose payload is the trimmed fragments joined by single spaces
\* in commit order.
C1_BurstIsOneMergedSend ==
  (QuietNow /\ AllTight) => Payloads = <<SpaceJoined(Committed)>>

\* C1 witness: two commits in one burst, the second trimmed, sent as "a aa"
C1_Witness ==
  /\ QuietNow /\ AllTight
  /\ Len(commitLog) = 2
  /\ Payloads = <<(<<"a", " ", "a", "a">>)>>

\* C2: commits that are each followed by a pause of at least the quiet
\* period with no activity give one request per commit, each carrying only
\* that commit's fragment, in commit order.
C2_PausedCommitsAreSeparateSends ==
  (QuietNow /\ AllQuiet) => Payloads = Committed

\* C2 witness: "a", a pause, "aa", a pause: two requests, "a" then "aa"
C2_Witness ==
  /\ QuietNow /\ AllQuiet
  /\ Payloads = <<(<<"a">>), (<<"a", "a">>)>>

\* C3 (as claimed): in every state in which a dispatched request is not yet
\* resolved, the send button is disabled.
C3_DisabledWhileOutstanding == Outstanding # {} => sendBtnDisabled

\* C4 (as claimed): no flush dispatches a payload while SendState, the
\* disabled send button, is already true.
C4_NoDispatchWhileSending == [][Dispatches => ~sendBtnDisabled]_vars

\* C4 (amended): a flush may dispatch while an earlier payload is in flight;
\* every dispatching flush sends exactly one request, whose payload is the
\* whole buffer joined by single spaces, and leaves the buffer empty and the
\* timer handle null, so that no later flush can send those fragments again.
C4_FlushTakesWholeBufferOnce ==
  [][Dispatches =>
       /\ Len(requests') = Len(requests) + 1
       /\ pendingChunks # <<>>
       /\ requests'[Len(requests')].payload = SpaceJoined(pendingChunks)
       /\ pendingChunks' = <<>>
       /\ pendingTimer' = Null]_vars

\* C4 witness: a second payload was dispatched while the first is in flight
C4_Witness ==
  /\ Len(requests) = 2
  /\ Cardinality(Outstanding) = 2
  /\ pendingChunks = <<>>

\* C5: the buffer is non-empty exactly when an inactivity timer is
\* scheduled: a non-empty pendingChunks has a live pendingTimer, an empty
\* pendingChunks has pendingTimer null.
C5_BufferIffTimer ==
  /\ pendingChunks # <<>> =>
       (pendingTimer # Null /\ pendingTimer \in DOMAIN timers)
  /\ pendingChunks = <<>> => pendingTimer = Null

\* C5 witness: a second buffer/timer cycle, after a first one was flushed
C5_Witness ==
  /\ requests # <<>>
  /\ pendingChunks # <<>>
  /\ pendingTimer \in DOMAIN timers

\* C6: at most one inactivity timer is scheduled, and it is the one
\* pendingTimer names: a callback that was replaced is cancelled and can
\* never fire.
C6_AtMostOneTimer ==
  /\ Cardinality(DOMAIN timers) <= 1
  /\ \A t \in DOMAIN timers : t = pendingTimer

\* C6 witness: the timer was re-armed to a full period after time had passed
C6_Witness ==
  /\ pendingChunks # <<>>
  /\ sinceCommit > 0
  /\ pendingTimer \in DOMAIN timers
  /\ timers[pendingTimer] = INACTIVITY_MS

\* a keydown that is no commit of a non-empty text
IsCommit(e) == e.key = "Enter" /\ ~e.shiftKey /\ Fragment(inputValue) # <<>>

\* C7: a keystroke while the buffer is empty creates no timer and sends
\* nothing: pendingTimer stays null, no timeout is scheduled, the buffer
\* stays empty and no request is issued.
C7_KeystrokeOnEmptyBufferIsInert ==
  [][(pendingChunks = <<>> /\ \E e \in KeyEvents : ~IsCommit(e) /\ KeyDown(e))
       => /\ pendingTimer' = Null
          /\ timers' = timers
          /\ DOMAIN timers' = {}
          /\ pendingChunks' = <<>>
          /\ requests' = requests]_vars

\* C7 witness: keys were typed with an empty buffer, after a flush
C7_Witness ==
  /\ requests # <<>>
  /\ Len(inputValue) = 2
  /\ pendingChunks = <<>>
  /\ pendingTimer = Null

\* the accept key, pressed without a modifier
AcceptKey == [key |-> "Enter", shiftKey |-> FALSE]

\* a commit gesture whose text is empty after trimming
EmptyCommitByKey == Fragment(inputValue) = <<>> /\ KeyDown(AcceptKey)

EmptyCommitByClick == Fragment(inputValue) = <<>> /\ Click

\* no fragment appended, no bubble rendered, no request issued
NothingCommitted ==
  /\ pendingChunks' = pendingChunks
  /\ messages' = messages
  /\ requests' = requests

TimerUntouched == timers' = timers /\ pendingTimer' = pendingTimer

\* C8 (as claimed): a commit whose text is empty after trimming, by the
\* accept key or by the send button, appends no fragment, renders no bubble,
\* leaves the inactivity timer and its deadline unchanged and sends nothing.
C8_EmptyCommitChangesNothing ==
  [][(EmptyCommitByKey \/ EmptyCommitByClick)
       => (NothingCommitted /\ TimerUntouched)]_vars

\* C8 (amended): a commit whose text is empty after trimming appends no
\* fragment, renders no bubble and sends nothing.  By the send button it
\* leaves the inactivity timer and its deadline unchanged; by the accept key
\* it does so only while the buffer is empty: with a non-empty buffer the
\* keystroke is an activity signal and re-arms the timer to a full quiet
\* period.
C8_EmptyCommitOnlyCountsAsActivity ==
  [][/\ EmptyCommitByClick => (NothingCommitted /\ TimerUntouched)
     /\ EmptyCommitByKey =>
          /\ NothingCommitted
          /\ pendingChunks = <<>> => TimerUntouched
          /\ pendingChunks # <<>> =>
               /\ pendingTimer' # Null
               /\ DOMAIN timers' = {pendingTimer'}
               /\ timers'[pendingTimer'] = INACTIVITY_MS]_vars

\* C8 witness: with whitespace in the input and a fragment buffered, a key
\* went down after time had passed since the commit, and the timer stands at
\* a full quiet period again
C8_Witness ==
  /\ inputValue = <<" ">>
  /\ pendingChunks # <<>>
  /\ sinceCommit > 0
  /\ idleMs = 0
  /\ pendingTimer \in DOMAIN timers
  /\ timers[pendingTimer] = INACTIVITY_MS

\* a step in which request i fails: a non-success response, a transport
\* error, or a body that cannot be parsed
Fails(i) ==
  \/ FetchSettles(i, "notok")
  \/ FetchSettles(i, "error")
  \/ JsonSettles(i, Rejected)

\* C9: when a send fails, the composing indicator is hidden, the send button
\* is enabled, no bubble is rendered for the request, and the flush returns
\* normally (its error does not propagate).
C9_FailureReturnsToIdle ==
  [][\A i \in DOMAIN requests :
       Fails(i) =>
         /\ ~typingBubbleEl' /\ ~typingShown'
         /\ ~sendBtnDisabled'
         /\ messages' = messages
         /\ requests'[i].pc = "done"
         /\ requests'[i].promise = "fulfilled"]_vars

\* C9 witness: a request failed and the page shows the idle appearance
C9_Witness ==
  /\ \E i \in DOMAIN requests : requests[i].outcome = "failed"
  /\ Outstanding = {}
  /\ ~sendBtnDisabled
  /\ ~typingBubbleEl

\* C10: every committed fragment is consumed exactly once: the fragments
\* committed so far are the fragments of the payloads sent so far, in
\* dispatch order, followed by the buffer; none is lost, none is sent twice,
\* and a failed payload is neither put back nor sent again.
C10_FragmentsConsumedOnce ==
  /\ SpaceJoined(Committed) = SpaceJoined(Payloads \o pendingChunks)
  /\ \A i \in DOMAIN requests : requests[i].payload # <<>>
  /\ Len(Committed) >= Len(requests) + Len(pendingChunks)

\* C10 witness: one payload failed, a later one is in flight, and nothing
\* is buffered
C10_Witness ==
  /\ Len(requests) = 2
  /\ requests[1].outcome = "failed"
  /\ requests[2].pc # "done"
  /\ pendingChunks = <<>>

\* a step that commits a non-empty text, by the accept key or the button
CommitStep ==
  /\ Fragment(inputValue) # <<>>
  /\ (KeyDown(AcceptKey) \/ Click)

\* a step in which a due timer runs flushPendingChunks
TimerFires == \E t \in DOMAIN timers : TimerFire(t)

\* C11: a commit made while a payload is in flight is buffered in a cycle of
\* its own: it leaves the requests in flight as they are, joins the buffer
\* and arms a full quiet period; when that timer runs, the buffer is sent as
\* one more request, after the earlier ones, though they are not resolved.
C11_CommitInFlightIsSentSeparately ==
  [][Outstanding # {} =>
       /\ CommitStep =>
            /\ requests' = requests
            /\ pendingChunks' = Append(pendingChunks, Fragment(inputValue))
            /\ pendingTimer' \in DOMAIN timers'
            /\ timers'[pendingTimer'] = INACTIVITY_MS
       /\ TimerFires =>
            /\ requests' =
                 Append(requests, requests'[Len(requests')])
            /\ requests'[Len(requests')].payload = SpaceJoined(pendingChunks)
            /\ requests'[Len(requests')].pc = "fetch"
            /\ Outstanding \subseteq Outstanding']_vars

\* C11 witness: "aa", committed while "a" was in flight, was sent as the
\* second request, and the first is still not resolved
C11_Witness ==
  /\ Payloads = <<(<<"a">>), (<<"a", "a">>)>>
  /\ requests[1].pc # "done"
  /\ requests[2].pc = "fetch"

\* a keystroke that commits nothing new: any key but the accept key
PlainKey == \E e \in KeyEvents : ~IsCommit(e) /\ KeyDown(e)

\* C12: the flush is debounced on all activity.  When a timer runs the
\* flush, at least INACTIVITY_MS have passed since the latest activity
\* signal, commit or keystroke; and a keystroke on a non-empty buffer adds
\* no fragment, sends nothing and leaves one timer, a full quiet period away.
C12_FlushWaitsForQuietAfterAnyActivity ==
  [][/\ TimerFires => idleMs >= INACTIVITY_MS
     /\ (PlainKey /\ pendingChunks # <<>>) =>
          /\ pendingChunks' = pendingChunks
          /\ requests' = requests
          /\ DOMAIN timers' = {pendingTimer'}
          /\ timers'[pendingTimer'] = INACTIVITY_MS]_vars

\* C12 witness: a whole quiet period after the commit its fragment is still
\* buffered, because a character typed in between started the period again
C12_Witness ==
  /\ Len(pendingChunks) = 1
  /\ sinceCommit >= INACTIVITY_MS
  /\ idleMs > 0
  /\ idleMs < INACTIVITY_MS
  /\ inputValue # <<>>
  /\ pendingTimer \in DOMAIN timers
  /\ timers[pendingTimer] = INACTIVITY_MS - idleMs

\* the requests whose fetch has not settled: dispatched, awaiting the response
Awaiting == {i \in DOMAIN requests : requests[i].pc = "fetch"}

\* C13: while any dispatched request awaits its response the composing
\* indicator is there, also when two requests overlap.  (The indicator is
\* taken to be there when its element is held in typingBubbleEl, which is
\* the least that being visible requires.)
C13_IndicatorWhileAwaiting == Awaiting # {} => typingBubbleEl

\* the number of bot bubbles in the message list
RECURSIVE BotCount(_)
BotCount(msgs) ==
  IF msgs = <<>> THEN 0
  ELSE (IF Head(msgs).sender = "bot" THEN 1 ELSE 0) + BotCount(Tail(msgs))

\* the requests that completed successfully
Succeeded ==
  {i \in DOMAIN requests :
     requests[i].pc = "done" /\ requests[i].outcome = "ok"}

\* a step in which loadHistory replaces the message list by the transcript
HistoryRenders == \E data \in HistoryBodies : HistoryJsonSettles(data)

\* C14 as stated: there are never more bot bubbles than successfully
\* completed requests.
C14_BotBubblesWithinSuccesses == BotCount(messages) <= Cardinality(Succeeded)

\* C14, amended: apart from the transcript that loadHistory renders, a bot
\* bubble is added only in the step in which a request completes
\* successfully with a reply text that is non-empty after trimming, one
\* bubble in that step; a request that fails adds none; and a completed
\* request takes no further step, so that no request adds a second bubble.
C14_BotBubbleOnlyForSuccessfulReply ==
  [][~HistoryRenders =>
       /\ BotCount(messages') \in {BotCount(messages), BotCount(messages) + 1}
       /\ BotCount(messages') = BotCount(messages) + 1 =>
            /\ \E i \in DOMAIN requests :
                 /\ requests[i].pc = "json"
                 /\ i \in Succeeded'
            /\ \E t \in BotTexts :
                 /\ Fragment(t) # <<>>
                 /\ messages' = Append(messages, [sender |-> "bot", text |-> t])
       /\ \A i \in DOMAIN requests :
            /\ requests[i].pc = "done" => requests'[i] = requests[i]
            /\ (requests[i].pc # "done" /\ requests'[i].outcome = "failed") =>
                 BotCount(messages') = BotCount(messages)]_vars

\* C14 witness: two requests are complete, one answered with a reply and one
\* failed, and the one bot bubble is the reply (no transcript was rendered)
C14_Witness ==
  /\ Len(requests) = 2
  /\ Succeeded = {1}
  /\ requests[2].outcome = "failed"
  /\ BotCount(messages) = 1
  /\ historyPc = "fetch"

\* the user bubbles of the message list, in order
RECURSIVE UserBubbles(_)
UserBubbles(msgs) ==
  IF msgs = <<>> THEN <<>>
  ELSE (IF Head(msgs).sender = "user" THEN <<Head(msgs).text>> ELSE <<>>)
         \o UserBubbles(Tail(msgs))

\* C15: optimistic echo.  A non-empty commit adds exactly one user bubble,
\* showing its fragment, in the step that buffers the fragment and before
\* any request carries it; and no step removes a user bubble, whatever
\* becomes of the request.
C15_EchoOnceAndForGood ==
  [][/\ CommitStep =>
          /\ messages' =
               Append(messages,
                      [sender |-> "user", text |-> Fragment(inputValue)])
          /\ requests' = requests
     /\ Len(UserBubbles(messages')) >= Len(UserBubbles(messages))
     /\ SubSeq(UserBubbles(messages'), 1, Len(UserBubbles(messages))) =
          UserBubbles(messages)]_vars

\* a step that is an activity signal: a keystroke in the input or a commit
Activity ==
  \/ \E e \in KeyEvents : KeyDown(e)
  \/ Click /\ Fragment(inputValue) # <<>>

\* every committed fragment is part of a dispatched payload
AllSent ==
  /\ pendingChunks = <<>>
  /\ SpaceJoined(Committed) = SpaceJoined(Payloads)

\* C16: with time passing and due timers run, if the activity signals stop
\* at some point, then every fragment that is in the buffer is eventually
\* part of a dispatched payload; a fragment stays unsent for ever only if
\* activity signals keep coming.
C16_BufferedIsEventuallySent ==
  (<>[][~Activity]_vars) => ((pendingChunks # <<>>) ~> AllSent)

\* C16 witness: the fragment of the second commit went out after a quiet
\* period, in a payload of its own after the first
C16_Witness ==
  /\ Len(commitLog) = 2
  /\ commitLog[2].spacing = "quiet"
  /\ Len(requests) = 2
  /\ AllSent
  /\ idleMs >= INACTIVITY_MS

\* the steps of a request's call, in order
PcRank(pc) == IF pc = "fetch" THEN 1 ELSE IF pc = "json" THEN 2 ELSE 3

\* C17: a send in flight is never cancelled and runs to completion.  If
\* every awaited response settles in the end, every dispatched request is
\* eventually resolved; no step takes a request back or changes its payload;
\* and the step that resolves the last outstanding request leaves the send
\* button enabled and the indicator hidden, whatever happened in between.
C17_EverySendCompletesAndEndsIdle ==
  /\ \A i \in 1..MaxCommits :
       (i \in DOMAIN requests)
         ~> (i \in DOMAIN requests /\ requests[i].pc = "done")
  /\ [][/\ \A i \in DOMAIN requests :
             /\ i \in DOMAIN requests'
             /\ requests'[i].payload = requests[i].payload
             /\ PcRank(requests'[i].pc) >= PcRank(requests[i].pc)
        /\ (Outstanding # {} /\ Outstanding' = {}) =>
             /\ ~sendBtnDisabled'
             /\ ~typingBubbleEl'
             /\ ~typingShown']_vars

\* C17 witness: two requests were dispatched, both were answered
\* successfully, and the page is idle again
C17_Witness ==
  /\ Len(requests) = 2
  /\ \A i \in DOMAIN requests : requests[i].outcome = "ok"
  /\ Outstanding = {}
  /\ ~sendBtnDisabled
  /\ ~typingBubbleEl

\* C18: every run of the timer's callback dispatches exactly one request.
\* When a timer runs flushPendingChunks the buffer is not empty and its
\* fragments, joined and trimmed, are not empty, so that neither early
\* return of flushPendingChunks is taken; the step adds exactly one request
\* and changes no other; and requests are added by no other step, so that
\* there are as many requests as timer firings.
C18_EachTimerFiringIsOneRequest ==
  [][/\ TimerFires =>
          /\ pendingChunks # <<>>
          /\ Fragment(SpaceJoined(pendingChunks)) # <<>>
          /\ Len(requests') = Len(requests) + 1
          /\ SubSeq(requests', 1, Len(requests)) = requests
     /\ ~TimerFires => Len(requests') = Len(requests)]_vars

\* C18 witness: two timers have run and two requests were made, and no
\* timer and no fragment is left
C18_Witness ==
  /\ Len(requests) = 2
  /\ DOMAIN timers = {}
  /\ pendingTimer = Null
  /\ pendingChunks = <<>>
  /\ Len(commitLog) = 2

\* C19: in every state in which no call of flushPendingChunks is still
\* pending, the send button is enabled and no composing indicator is shown.
C19_IdleWhenNothingPending ==
  Outstanding = {} => (~sendBtnDisabled /\ ~typingBubbleEl /\ ~typingShown)

\* C19 witness: one request failed and one was answered with a blank reply;
\* none is pending, the button is enabled and no indicator is shown
C19_Witness ==
  /\ Len(requests) = 2
  /\ requests[1].outcome = "failed"
  /\ requests[2].outcome = "ok"
  /\ Outstanding = {}
  /\ BotCount(messages) = 0
  /\ ~sendBtnDisabled
  /\ ~typingShown

====
